---- MODULE Spec2Model ----
(***************************************************************************)
(* Model of funretro-export (src/index.js): run() walks a rendered board   *)
(* page lookup by lookup, keeps the messages whose vote count reaches      *)
(* settings.voteCount, serializes the columns with parseTextFile or        *)
(* parseCSV and hands the result to writeToFile.                           *)
(*                                                                         *)
(* A JavaScript string is a sequence of one-character tokens; "nbsp" is    *)
(* the single character U+00A0.                                            *)
(***************************************************************************)
EXTENDS Integers, Sequences, FiniteSets, TLC

VARIABLES
    fileType,       \* argv.fileType
    voteCount,      \* settings.voteCount
    pc,             \* position of the program
    error,          \* what run() threw ("none" while nothing was thrown)
    boardTitle,     \* run: boardTitle
    columns,        \* run: columns.length (-1 before page.$$ resolved)
    i,              \* run: index of the outer loop
    columnTitle,    \* run: columnTitle of the current column
    messages,       \* run: messages.length of the current column
    j,              \* run: index of the inner loop (the inner `i`)
    votes,          \* run: votes of the current message
    eval_messages,  \* run: eval_messages of the current column
    eval_columns,   \* run: eval_columns
    data,           \* run: data / the string a serializer returned
    pending,        \* fs.writeFile calls whose callback has not run
    files,          \* files fs.writeFile has written
    lookups,        \* history: every page lookup made, in order
    pageTitle,      \* history: raw inner text of the board title element
    pageCols,       \* history: what the page returned for each column
    calls           \* history: serializers called, in order

vars == << fileType, voteCount, pc, error, boardTitle, columns, i, columnTitle,
           messages, j, votes, eval_messages, eval_columns, data, pending,
           files, lookups, pageTitle, pageCols, calls >>

-----------------------------------------------------------------------------
(* Bounds and input sets *)

MaxCols == 2
MaxMsgs == 2

SeqsUpTo(S, n) == UNION { [1..k -> S] : k \in 0..n }

\* String.prototype.trim removes these (among others); split(' ') only " ".
WhiteSpace == { " ", "\t", "\n", "nbsp" }

FileTypes == { "txt", "csv", "pdf" }
Thresholds == { 1, 2 }
TitleTexts == { <<>>, <<" ", "nbsp">>, <<" ", "a", " ", "nbsp", "b", " ">> }
HeaderTexts == { <<" ", "h">> }
VoteTexts == { <<>>, <<"v">>, <<"1">>, <<" ", "2", "v">> }
MessageTexts == { <<"m", " ">> }

NoData == << "undefined" >>
NaN == [nan |-> TRUE, val |-> 0]
Num(n) == [nan |-> FALSE, val |-> n]

-----------------------------------------------------------------------------
(* Strings *)

RECURSIVE TrimStart(_)
TrimStart(s) ==
    IF s # <<>> /\ Head(s) \in WhiteSpace THEN TrimStart(Tail(s)) ELSE s

RECURSIVE TrimEnd(_)
TrimEnd(s) ==
    IF s # <<>> /\ s[Len(s)] \in WhiteSpace
    THEN TrimEnd(SubSeq(s, 1, Len(s) - 1))
    ELSE s

\* a lookup that returns the inner text untrimmed
TrimNone(s) == s

\* node.innerText.trim()
Trim(s) == TrimEnd(TrimStart(s))

Digits == << "0", "1", "2", "3", "4", "5", "6", "7", "8", "9" >>
IsDigit(c) == \E d \in 1..10 : Digits[d] = c
DigitVal(c) == (CHOOSE d \in 1..10 : Digits[d] = c) - 1

RECURSIVE ParseDigits(_, _, _)
\* the longest prefix of decimal digits of s; NaN when there is none
ParseDigits(s, acc, seen) ==
    IF s # <<>> /\ IsDigit(Head(s))
    THEN ParseDigits(Tail(s), acc * 10 + DigitVal(Head(s)), TRUE)
    ELSE IF seen THEN Num(acc) ELSE NaN

\* parseInt(string): leading white space skipped, an optional sign, then the
\* longest prefix of decimal digits; NaN when no digit follows.  (The inputs
\* never start with "0x", so the radix is 10.)
parseInt(s) ==
    LET t == TrimStart(s)
        neg == t # <<>> /\ Head(t) = "-"
        u == IF t # <<>> /\ Head(t) \in {"-", "+"} THEN Tail(t) ELSE t
        r == ParseDigits(u, 0, FALSE)
    IN  IF r.nan THEN NaN ELSE IF neg THEN Num(0 - r.val) ELSE r

RECURSIVE NatToStr(_)
NatToStr(n) ==
    IF n < 10 THEN << Digits[n + 1] >>
    ELSE NatToStr(n \div 10) \o << Digits[(n % 10) + 1] >>

\* `${number}` of an integer
ToStr(n) == IF n < 0 THEN << "-" >> \o NatToStr(0 - n) ELSE NatToStr(n)

RECURSIVE Split(_, _, _)
\* s.split(c): the pieces of s between occurrences of the character c
Split(s, c, cur) ==
    IF s = <<>> THEN << cur >>
    ELSE IF Head(s) = c THEN << cur >> \o Split(Tail(s), c, <<>>)
    ELSE Split(Tail(s), c, Append(cur, Head(s)))

RECURSIVE Join(_)
\* parts.join('')
Join(parts) == IF parts = <<>> THEN <<>> ELSE Head(parts) \o Join(Tail(parts))

\* boardTitle.split(' ').join('')
FileName(title) == Join(Split(title, " ", <<>>))

\* votes > settings.voteCount
GEStrict(v, threshold) == ~v.nan /\ v.val > threshold

\* !(votes < settings.voteCount): true when votes is NaN
GENotLess(v, threshold) == v.nan \/ ~(v.val < threshold)

\* votes >= settings.voteCount, false when votes is NaN
GE(v, threshold) == ~v.nan /\ v.val >= threshold

-----------------------------------------------------------------------------
(* Serializers *)

RECURSIVE TextMessages(_, _, _)
\* the inner loop of parseTextFile: one line per message from index m on
TextMessages(msgs, m, parsedText) ==
    IF m <= Len(msgs)
    THEN TextMessages(msgs, m + 1,
             parsedText \o << "-", " " >> \o msgs[m].text \o << " ", "(" >>
                 \o ToStr(msgs[m].voteCount) \o << ")", " ", "\n" >>)
    ELSE parsedText

\* TextColumn without the test of messages.length before the column title
TextColumnAlwaysTitle(col, parsedText) ==
    LET withTitle == parsedText \o col.columnTitle \o << " ", "\n" >>
        withLines == TextMessages(col.messages, 1, withTitle)
    IN  IF Len(col.messages) # 0 THEN withLines \o << "\n" >> ELSE withLines

\* one iteration of the outer loop of parseTextFile
TextColumn(col, parsedText) ==
    LET withTitle == IF Len(col.messages) # 0
                     THEN parsedText \o col.columnTitle \o << " ", "\n" >>
                     ELSE parsedText
        withLines == TextMessages(col.messages, 1, withTitle)
    IN  IF Len(col.messages) # 0 THEN withLines \o << "\n" >> ELSE withLines

RECURSIVE TextColumns(_, _, _)
TextColumns(columnData, c, parsedText) ==
    IF c <= Len(columnData)
    THEN TextColumns(columnData, c + 1, TextColumn(columnData[c], parsedText))
    ELSE parsedText

parseTextFile(title, columnData) ==
    TextColumns(columnData, 1, title \o << " ", "\n", "\n" >>)

\* Math.max.apply(Math, xs): -Infinity for the empty list
NegInfinity == [neginf |-> TRUE, val |-> 0]
Finite(n) == [neginf |-> FALSE, val |-> n]

RECURSIVE MaxOf(_)
MaxOf(xs) ==
    IF Len(xs) = 1 THEN Head(xs)
    ELSE LET r == MaxOf(Tail(xs)) IN IF Head(xs) >= r THEN Head(xs) ELSE r

MathMax(xs) == IF xs = <<>> THEN NegInfinity ELSE Finite(MaxOf(xs))

\* x + 1 and n < x on numbers that may be -Infinity
PlusOne(x) == IF x.neginf THEN x ELSE Finite(x.val + 1)
Less(n, x) == ~x.neginf /\ n < x.val

\* one cell of parseCSV, row r (0 = the header row), column colNum (1-based)
CSVCell(columnData, r, colNum) ==
    IF r = 0
    THEN columnData[colNum].columnTitle \o << "," >>
    ELSE IF r > Len(columnData[colNum].messages)
         THEN << "," >>
         ELSE LET message == columnData[colNum].messages[r]
              IN  message.text \o << " ", "(" >> \o ToStr(message.voteCount)
                      \o << ")", "," >>

RECURSIVE CSVCells(_, _, _, _)
\* the inner loop of parseCSV
CSVCells(columnData, r, colNum, parsedText) ==
    IF colNum <= Len(columnData)
    THEN CSVCells(columnData, r, colNum + 1,
                  parsedText \o CSVCell(columnData, r, colNum))
    ELSE parsedText

RECURSIVE CSVRows(_, _, _, _)
\* the outer loop of parseCSV
CSVRows(columnData, r, max_rows, parsedText) ==
    IF Less(r, max_rows)
    THEN CSVRows(columnData, r + 1, max_rows,
                 CSVCells(columnData, r, 1, parsedText) \o << "\r", "\n" >>)
    ELSE parsedText

parseCSV(columnData) ==
    LET max_rows == PlusOne(MathMax([c \in 1..Len(columnData) |->
                                        Len(columnData[c].messages)]))
    IN  CSVRows(columnData, 0, max_rows, <<>>)

-----------------------------------------------------------------------------
(* run(): one action per await; the code between two awaits is one step *)

Lookup(op, c, m, ok) == [op |-> op, col |-> c, msg |-> m, ok |-> ok]

Unread == << "unread" >>

\* an inner loop that stops one message early
MessageLoopCondEarly(k, n) == k < n - 1

\* the loop conditions `i < columns.length` and `i < messages.length`
ColumnLoopCond(k, n) == k < n
MessageLoopCond(k, n) == k < n

\* a switch whose default branch falls back to the text serializer
SwitchDefaultsToText(ft, title, cols) ==
    IF ft = "csv"
    THEN [thrown |-> FALSE, call |-> "parseCSV", data |-> parseCSV(cols)]
    ELSE [thrown |-> FALSE, call |-> "parseTextFile",
          data |-> parseTextFile(title, cols)]

\* switch (argv.fileType): the serializer called and what it returned, or the
\* throw of the default branch
Switch(ft, title, cols) ==
    CASE ft = "txt" -> [thrown |-> FALSE, call |-> "parseTextFile",
                        data |-> parseTextFile(title, cols)]
      [] ft = "csv" -> [thrown |-> FALSE, call |-> "parseCSV",
                        data |-> parseCSV(cols)]
      [] OTHER      -> [thrown |-> TRUE, call |-> "none", data |-> NoData]

\* a throw or a rejected await inside run(): the promise of run() rejects
Reject(kind) ==
    /\ pc' = "rejected"
    /\ error' = kind
    /\ UNCHANGED << boardTitle, columns, i, columnTitle, messages, j, votes,
                    eval_messages, eval_columns, data, calls >>

\* after the outer loop: the switch, then `return [data, boardTitle]`
Export(cols) ==
    LET r == Switch(fileType, boardTitle, cols)
    IN  IF r.thrown
        THEN /\ pc' = "rejected"
             /\ error' = "fileType"
             /\ UNCHANGED << data, calls >>
        ELSE /\ pc' = "returned"
             /\ error' = error
             /\ data' = r.data
             /\ calls' = Append(calls, r.call)

\* eval_columns.push(...), i++, and the test of the outer loop; the locals of
\* the loop body go out of scope
AfterColumn(cols) ==
    /\ eval_columns' = cols
    /\ i' = i + 1
    /\ columnTitle' = <<>>
    /\ messages' = 0
    /\ j' = 0
    /\ votes' = NaN
    /\ eval_messages' = <<>>
    /\ IF ColumnLoopCond(i + 1, columns)
       THEN /\ pc' = "header"
            /\ UNCHANGED << error, data, calls >>
       ELSE Export(cols)

\* i++ and the test of the inner loop, with eval_messages as it is now
AfterMessage(msgs) ==
    IF MessageLoopCond(j + 1, messages)
    THEN /\ j' = j + 1
         /\ pc' = "votes"
         /\ eval_messages' = msgs
         /\ votes' = NaN
         /\ UNCHANGED << error, i, columnTitle, messages, eval_columns, data,
                         calls >>
    ELSE AfterColumn(Append(eval_columns,
                            [columnTitle |-> columnTitle, messages |-> msgs]))

\* chromium.launch(), browser.newPage(), page.goto(argv.url)
Goto ==
    /\ pc = "start"
    /\ \E ok \in BOOLEAN :
          /\ lookups' = Append(lookups, Lookup("goto", -1, -1, ok))
          /\ IF ok
             THEN /\ pc' = "wait"
                  /\ UNCHANGED << error, boardTitle, columns, i, columnTitle,
                                  messages, j, votes, eval_messages,
                                  eval_columns, data, calls >>
             ELSE Reject("lookup")
    /\ UNCHANGED << fileType, voteCount, pending, files, pageTitle, pageCols >>

\* page.waitForSelector(settings.selectors.messageContainer)
WaitForSelector ==
    /\ pc = "wait"
    /\ \E ok \in BOOLEAN :
          /\ lookups' = Append(lookups, Lookup("wait", -1, -1, ok))
          /\ IF ok
             THEN /\ pc' = "title"
                  /\ UNCHANGED << error, boardTitle, columns, i, columnTitle,
                                  messages, j, votes, eval_messages,
                                  eval_columns, data, calls >>
             ELSE Reject("lookup")
    /\ UNCHANGED << fileType, voteCount, pending, files, pageTitle, pageCols >>

\* page.$eval(boardTitleIdentifier, node => node.innerText.trim()), then the
\* test of boardTitle
EvalTitle ==
    /\ pc = "title"
    /\ \/ /\ lookups' = Append(lookups, Lookup("title", -1, -1, FALSE))
          /\ Reject("lookup")
          /\ UNCHANGED pageTitle
       \/ \E raw \in TitleTexts :
             /\ lookups' = Append(lookups, Lookup("title", -1, -1, TRUE))
             /\ pageTitle' = raw
             /\ boardTitle' = Trim(raw)
             /\ IF Trim(raw) = <<>>
                THEN /\ pc' = "rejected"
                     /\ error' = "title"
                ELSE /\ pc' = "columns"
                     /\ error' = error
             /\ UNCHANGED << columns, i, columnTitle, messages, j, votes,
                             eval_messages, eval_columns, data, calls >>
    /\ UNCHANGED << fileType, voteCount, pending, files, pageCols >>

\* page.$$(settings.selectors.messageColumn), then the first test of the
\* outer loop
QueryColumns ==
    /\ pc = "columns"
    /\ \/ /\ lookups' = Append(lookups, Lookup("columns", -1, -1, FALSE))
          /\ Reject("lookup")
       \/ \E n \in 0..MaxCols :
             /\ lookups' = Append(lookups, Lookup("columns", -1, -1, TRUE))
             /\ columns' = n
             /\ i' = 0
             /\ eval_columns' = <<>>
             /\ UNCHANGED << boardTitle, columnTitle, messages, j, votes,
                             eval_messages >>
             /\ IF ColumnLoopCond(0, n)
                THEN /\ pc' = "header"
                     /\ UNCHANGED << error, data, calls >>
                ELSE Export(<<>>)
    /\ UNCHANGED << fileType, voteCount, pending, files, pageTitle, pageCols >>

\* columns[i].$eval(columnHeader, node => node.innerText.trim())
EvalHeader ==
    /\ pc = "header"
    /\ \/ /\ lookups' = Append(lookups, Lookup("header", i, -1, FALSE))
          /\ Reject("lookup")
       \/ \E raw \in HeaderTexts :
             /\ lookups' = Append(lookups, Lookup("header", i, -1, TRUE))
             /\ columnTitle' = Trim(raw)
             /\ pc' = "messages"
             /\ UNCHANGED << error, boardTitle, columns, i, messages, j, votes,
                             eval_messages, eval_columns, data, calls >>
    /\ UNCHANGED << fileType, voteCount, pending, files, pageTitle, pageCols >>

\* columns[i].$$(settings.selectors.messageContainer), `eval_messages = []`
\* and the first test of the inner loop
QueryMessages ==
    /\ pc = "messages"
    /\ \/ /\ lookups' = Append(lookups, Lookup("messages", i, -1, FALSE))
          /\ Reject("lookup")
          /\ UNCHANGED pageCols
       \/ \E n \in 0..MaxMsgs :
             /\ lookups' = Append(lookups, Lookup("messages", i, -1, TRUE))
             /\ pageCols' = Append(pageCols, [n |-> n, msgs |-> <<>>])
             /\ IF MessageLoopCond(0, n)
                THEN /\ messages' = n
                     /\ j' = 0
                     /\ eval_messages' = <<>>
                     /\ pc' = "votes"
                     /\ UNCHANGED << error, boardTitle, columns, i, columnTitle,
                                     votes, eval_columns, data, calls >>
                ELSE /\ AfterColumn(Append(eval_columns,
                            [columnTitle |-> columnTitle, messages |-> <<>>]))
                     /\ UNCHANGED << boardTitle, columns >>
    /\ UNCHANGED << fileType, voteCount, pending, files, pageTitle >>

\* messages[i].$eval(messageVotes, node => parseInt(node.innerText.trim())),
\* then the test `votes >= settings.voteCount`
EvalVotes ==
    /\ pc = "votes"
    /\ \/ /\ lookups' = Append(lookups, Lookup("votes", i, j, FALSE))
          /\ Reject("lookup")
          /\ UNCHANGED pageCols
       \/ \E raw \in VoteTexts :
             LET v == parseInt(Trim(raw))
             IN  /\ lookups' = Append(lookups, Lookup("votes", i, j, TRUE))
                 /\ pageCols' = [pageCols EXCEPT ![Len(pageCols)].msgs =
                        Append(@, [nan |-> v.nan, val |-> v.val, text |-> Unread])]
                 /\ UNCHANGED << boardTitle, columns >>
                 /\ IF GE(v, voteCount)
                    THEN /\ votes' = v
                         /\ pc' = "text"
                         /\ UNCHANGED << error, i, columnTitle, messages, j,
                                         eval_messages, eval_columns, data, calls >>
                    ELSE AfterMessage(eval_messages)
    /\ UNCHANGED << fileType, voteCount, pending, files, pageTitle >>

\* messages[i].$eval(messageText, node => node.innerText.trim()), then
\* eval_messages.push({text, voteCount})
EvalText ==
    /\ pc = "text"
    /\ \/ /\ lookups' = Append(lookups, Lookup("text", i, j, FALSE))
          /\ Reject("lookup")
          /\ UNCHANGED pageCols
       \/ \E raw \in MessageTexts :
             /\ lookups' = Append(lookups, Lookup("text", i, j, TRUE))
             /\ pageCols' = [pageCols EXCEPT
                    ![Len(pageCols)].msgs[Len(pageCols[Len(pageCols)].msgs)].text = raw]
             /\ UNCHANGED << boardTitle, columns >>
             /\ AfterMessage(Append(eval_messages,
                    [text |-> Trim(raw), voteCount |-> votes.val]))
    /\ UNCHANGED << fileType, voteCount, pending, files, pageTitle >>

\* a file named after the board title as it is
OutputFileUnstripped(title, ft, d) == [name |-> title, ext |-> ft, data |-> d]

\* the file writeToFile asks for: boardTitle.split(' ').join('') as the name,
\* argv.fileType as the extension
OutputFile(title, ft, d) == [name |-> FileName(title), ext |-> ft, data |-> d]

\* .then(([data, boardTitle]) => writeToFile(...)): the call of fs.writeFile
WriteToFile ==
    /\ pc = "returned"
    /\ pending' = Append(pending, OutputFile(boardTitle, fileType, data))
    /\ pc' = "writing"
    /\ UNCHANGED << fileType, voteCount, error, boardTitle, columns, i,
                    columnTitle, messages, j, votes, eval_messages,
                    eval_columns, data, files, lookups, pageTitle, pageCols,
                    calls >>

\* the callback of fs.writeFile: throws the error, or logs; then process.exit()
WriteFileCallback ==
    /\ pc = "writing"
    /\ \E err \in BOOLEAN :
          IF err
          THEN /\ pc' = "uncaught"
               /\ files' = files
          ELSE /\ pc' = "exited"
               /\ files' = Append(files, Head(pending))
    /\ pending' = Tail(pending)
    /\ UNCHANGED << fileType, voteCount, error, boardTitle, columns, i,
                    columnTitle, messages, j, votes, eval_messages,
                    eval_columns, data, lookups, pageTitle, pageCols, calls >>

\* an error handler that serializes and returns the columns collected so far
handleErrorPartial ==
    /\ pc = "rejected"
    /\ pc' = "returned"
    /\ data' = parseTextFile(boardTitle, eval_columns)
    /\ calls' = Append(calls, "parseTextFile")
    /\ UNCHANGED << fileType, voteCount, error, boardTitle, columns, i,
                    columnTitle, messages, j, votes, eval_messages,
                    eval_columns, pending, files, lookups, pageTitle,
                    pageCols >>

\* .catch(handleError): console.error(error)
handleError ==
    /\ pc = "rejected"
    /\ pc' = "handled"
    /\ UNCHANGED << fileType, voteCount, error, boardTitle, columns, i,
                    columnTitle, messages, j, votes, eval_messages,
                    eval_columns, data, pending, files, lookups, pageTitle,
                    pageCols, calls >>

Init ==
    /\ fileType \in FileTypes
    /\ voteCount \in Thresholds
    /\ pc = "start"
    /\ error = "none"
    /\ boardTitle = <<>>
    /\ columns = -1
    /\ i = 0
    /\ columnTitle = <<>>
    /\ messages = 0
    /\ j = 0
    /\ votes = NaN
    /\ eval_messages = <<>>
    /\ eval_columns = <<>>
    /\ data = NoData
    /\ pending = <<>>
    /\ files = <<>>
    /\ lookups = <<>>
    /\ pageTitle = <<>>
    /\ pageCols = <<>>
    /\ calls = <<>>

Next ==
    \/ Goto
    \/ WaitForSelector
    \/ EvalTitle
    \/ QueryColumns
    \/ EvalHeader
    \/ QueryMessages
    \/ EvalVotes
    \/ EvalText
    \/ WriteToFile
    \/ WriteFileCallback
    \/ handleError

Spec == Init /\ [][Next]_vars

-----------------------------------------------------------------------------
(* The serializers on their own: every board of the bounded set is given to *)
(* parseTextFile (SpecText) or to parseCSV (SpecCSV).                       *)

BoardTitles == { <<"S", "1">> }
BoardHeaders == { <<"h">>, <<"k", ",", "k">> }
BoardMessages == { [text |-> <<"m">>, voteCount |-> 3],
                   [text |-> <<"a", ",", "b">>, voteCount |-> 12] }
BoardColumns == [columnTitle : BoardHeaders,
                 messages : SeqsUpTo(BoardMessages, MaxMsgs)]
Boards == SeqsUpTo(BoardColumns, MaxCols)

InitBoard(at, ft) ==
    /\ fileType = ft
    /\ voteCount \in Thresholds
    /\ pc = at
    /\ error = "none"
    /\ boardTitle \in BoardTitles
    /\ columns = -1
    /\ i = 0
    /\ columnTitle = <<>>
    /\ messages = 0
    /\ j = 0
    /\ votes = NaN
    /\ eval_messages = <<>>
    /\ eval_columns \in Boards
    /\ data = NoData
    /\ pending = <<>>
    /\ files = <<>>
    /\ lookups = <<>>
    /\ pageTitle = <<>>
    /\ pageCols = <<>>
    /\ calls = <<>>

CallParseTextFile ==
    /\ pc = "text_in"
    /\ data' = parseTextFile(boardTitle, eval_columns)
    /\ calls' = Append(calls, "parseTextFile")
    /\ pc' = "text_out"
    /\ UNCHANGED << fileType, voteCount, error, boardTitle, columns, i,
                    columnTitle, messages, j, votes, eval_messages,
                    eval_columns, pending, files, lookups, pageTitle, pageCols >>

CallParseCSV ==
    /\ pc = "csv_in"
    /\ data' = parseCSV(eval_columns)
    /\ calls' = Append(calls, "parseCSV")
    /\ pc' = "csv_out"
    /\ UNCHANGED << fileType, voteCount, error, boardTitle, columns, i,
                    columnTitle, messages, j, votes, eval_messages,
                    eval_columns, pending, files, lookups, pageTitle, pageCols >>

InitText == InitBoard("text_in", "txt")
NextText == CallParseTextFile
SpecText == InitText /\ [][NextText]_vars

InitCSV == InitBoard("csv_in", "csv")
NextCSV == CallParseCSV
SpecCSV == InitCSV /\ [][NextCSV]_vars

-----------------------------------------------------------------------------
(* Claims about the serializers *)

RECURSIVE Flatten(_)
Flatten(ss) == IF ss = <<>> THEN <<>> ELSE Head(ss) \o Flatten(Tail(ss))

MessageLine(msg) ==
    << "-", " " >> \o msg.text \o << " ", "(" >> \o ToStr(msg.voteCount)
        \o << ")", " ", "\n" >>

ColumnBlock(col) ==
    IF col.messages = <<>>
    THEN <<>>
    ELSE col.columnTitle \o << " ", "\n" >>
         \o Flatten([m \in 1..Len(col.messages) |-> MessageLine(col.messages[m])])
         \o << "\n" >>

ExpectedText(title, cols) ==
    title \o << " ", "\n", "\n" >>
        \o Flatten([c \in 1..Len(cols) |-> ColumnBlock(cols[c])])

\* C2: parseTextFile returns "<title> \n\n" followed, for each column in board
\* order that has at least one message, by "<columnTitle> \n", one line
\* "- <text> (<voteCount>) \n" per message in order and one "\n"; a column
\* with no message contributes nothing.
C2_TextLayout ==
    pc = "text_out" => data = ExpectedText(boardTitle, eval_columns)

C2_Witness ==
    /\ pc = "text_out"
    /\ Len(eval_columns) = 2
    /\ eval_columns[1].messages = <<>>
    /\ Len(eval_columns[2].messages) = 2
    /\ eval_columns[2].messages[1] # eval_columns[2].messages[2]

\* the number of "\r\n" terminators in s
RECURSIVE CountCRLF(_)
CountCRLF(s) ==
    IF Len(s) < 2 THEN 0
    ELSE IF s[1] = "\r" /\ s[2] = "\n" THEN 1 + CountCRLF(SubSeq(s, 3, Len(s)))
    ELSE CountCRLF(Tail(s))

\* the longest message list of the board, 0 for a board without columns
MaxMessages(cols) ==
    IF cols = <<>> THEN 0
    ELSE CHOOSE n \in 0..MaxMsgs :
            /\ \E c \in 1..Len(cols) : Len(cols[c].messages) = n
            /\ \A c \in 1..Len(cols) : Len(cols[c].messages) <= n

\* C3: parseCSV emits 1 + (the longest message list, 0 without columns) rows
\* terminated by CRLF; a board without columns yields exactly the header row.
C3_RowCount ==
    pc = "csv_out" => CountCRLF(data) = 1 + MaxMessages(eval_columns)

RECURSIVE Rows(_, _)
\* the rows of s: the text before each "\r\n"
Rows(s, cur) ==
    IF s = <<>> THEN <<>>
    ELSE IF Len(s) >= 2 /\ s[1] = "\r" /\ s[2] = "\n"
         THEN << cur >> \o Rows(SubSeq(s, 3, Len(s)), <<>>)
         ELSE Rows(Tail(s), Append(cur, Head(s)))

\* the cells of a row: the text before each ","
Cells(row) ==
    LET pieces == Split(row, ",", <<>>)
    IN  SubSeq(pieces, 1, Len(pieces) - 1)

ExpectedCell(cols, r, c) ==
    IF r = 1 THEN cols[c].columnTitle
    ELSE IF r - 1 > Len(cols[c].messages) THEN <<>>
    ELSE cols[c].messages[r - 1].text \o << " ", "(" >>
            \o ToStr(cols[c].messages[r - 1].voteCount) \o << ")" >>

\* C4: every row parseCSV emits has exactly columns.length comma-separated
\* cells: in the header row cell c is the title of column c, in row r cell c
\* is "<text> (<voteCount>)" of message r-1 of column c, or empty.
C4_CellsPerRow ==
    pc = "csv_out" =>
        LET rows == Rows(data, <<>>)
        IN  \A r \in 1..Len(rows) :
               /\ Len(Cells(rows[r])) = Len(eval_columns)
               /\ \A c \in 1..Len(eval_columns) :
                     Cells(rows[r])[c] = ExpectedCell(eval_columns, r, c)

-----------------------------------------------------------------------------
(* Claims about run() *)

Recognized == { "txt", "csv" }
Failed == { "rejected", "handled" }
TraversalOps == { "columns", "header", "messages", "votes", "text" }

\* every column of the page has been pushed to eval_columns
ExtractionDone == columns >= 0 /\ Len(eval_columns) = columns

NothingProduced ==
    /\ calls = <<>>
    /\ data = NoData
    /\ pending = <<>>
    /\ files = <<>>

\* the page message passes the filter
Kept(pm) == ~pm.nan /\ pm.val >= voteCount

RECURSIVE ExpectedMessages(_)
\* the page-order subsequence of the kept page messages, as Messages
ExpectedMessages(pmsgs) ==
    IF pmsgs = <<>> THEN <<>>
    ELSE (IF Kept(Head(pmsgs))
          THEN << [text |-> Trim(Head(pmsgs).text), voteCount |-> Head(pmsgs).val] >>
          ELSE <<>>) \o ExpectedMessages(Tail(pmsgs))

\* C1: every message of every extracted column has voteCount >= the
\* threshold, and the column's message list is exactly the page-order
\* subsequence of the column's page messages whose vote count is >= the
\* threshold.
C1_FilterInvariant ==
    \A c \in 1..Len(eval_columns) :
       /\ \A m \in 1..Len(eval_columns[c].messages) :
             eval_columns[c].messages[m].voteCount >= voteCount
       /\ Len(pageCols[c].msgs) = pageCols[c].n
       /\ eval_columns[c].messages = ExpectedMessages(pageCols[c].msgs)

C1_Witness ==
    /\ pc = "exited"
    /\ \E c \in 1..Len(eval_columns) :
          /\ Len(pageCols[c].msgs) = 2
          /\ ~pageCols[c].msgs[1].nan
          /\ pageCols[c].msgs[1].val < voteCount
          /\ Len(eval_columns[c].messages) = 1

\* C5 as claimed: with an unrecognized format nothing is serialized or written
\* and, whatever the page returned to the lookups, the run fails with the
\* unsupported-format error.
C5_Original ==
    fileType \notin Recognized =>
        /\ NothingProduced
        /\ (pc \in Failed /\ \A k \in 1..Len(lookups) : lookups[k].ok) =>
              error = "fileType"

\* C5, amended: with an unrecognized format nothing is ever serialized or
\* written and run() never returns; the error is the unsupported-format error
\* exactly when every column of the page was extracted, and otherwise the
\* extraction error raised earlier.
C5_UnsupportedFormat ==
    fileType \notin Recognized =>
        /\ NothingProduced
        /\ pc \notin { "returned", "writing", "exited", "uncaught" }
        /\ ExtractionDone => (pc \in Failed /\ error = "fileType")
        /\ error = "fileType" => ExtractionDone
        /\ (pc \in Failed /\ ~ExtractionDone) => error \in { "lookup", "title" }

C5_Witness ==
    /\ fileType = "pdf"
    /\ pc = "handled"
    /\ error = "fileType"
    /\ Len(eval_columns) = 2
    /\ eval_columns[2].messages # <<>>

AllWhiteSpace(s) == \A k \in 1..Len(s) : s[k] \in WhiteSpace

TitleLookedUp == \E k \in 1..Len(lookups) : lookups[k].op = "title" /\ lookups[k].ok

\* C6: when the title is empty after trimming (no text, or white space only),
\* run() fails with the title error before any column or message lookup, and
\* nothing is serialized or written.
C6_EmptyTitle ==
    (TitleLookedUp /\ AllWhiteSpace(pageTitle)) =>
        /\ pc \in Failed
        /\ error = "title"
        /\ \A k \in 1..Len(lookups) : lookups[k].op \notin TraversalOps
        /\ NothingProduced

C6_Witness ==
    /\ pc = "handled"
    /\ error = "title"
    /\ pageTitle # <<>>

\* C7: a failed lookup is the last lookup of the run, and after it nothing is
\* serialized and no file is written.
C7_AbortOnFailure ==
    /\ \A k \in 1..Len(lookups) : ~lookups[k].ok => k = Len(lookups)
    /\ (\E k \in 1..Len(lookups) : ~lookups[k].ok) =>
          /\ pc \in Failed
          /\ error = "lookup"
          /\ NothingProduced

C7_Witness ==
    /\ pc = "handled"
    /\ error = "lookup"
    /\ lookups[Len(lookups)].op = "text"
    /\ lookups[Len(lookups)].col = 1
    /\ Len(eval_columns) = 1
    /\ eval_columns[1].messages # <<>>
    /\ eval_messages # <<>>

Requests == { pending[k] : k \in 1..Len(pending) } \cup { files[k] : k \in 1..Len(files) }

StripChars(s, chars) == SelectSeq(s, LAMBDA ch : ch \notin chars)

\* the output file, when there is one, with Name as the file name expected
OutputAsSpecified(stripped) ==
    /\ Len(pending) + Len(files) <= 1
    /\ \A f \in Requests :
          /\ pc \in { "writing", "exited", "uncaught" }
          /\ error = "none"
          /\ ExtractionDone
          /\ fileType \in Recognized
          /\ f.ext = fileType
          /\ f.name = StripChars(boardTitle, stripped)
          /\ f.data = data
          /\ fileType = "txt" =>
                calls = << "parseTextFile" >>
                /\ data = parseTextFile(boardTitle, eval_columns)
          /\ fileType = "csv" =>
                calls = << "parseCSV" >> /\ data = parseCSV(eval_columns)

\* C8 as claimed: the file is written at most once, only after extraction and
\* serialization succeeded, named after the board title with all white space
\* stripped, with the extension of the format and the serializer's string.
C8_Original == OutputAsSpecified(WhiteSpace)

\* C8, amended: the same, the name being the board title with every space
\* character (U+0020) removed; other white space inside the title stays.
C8_OutputFile == OutputAsSpecified({ " " })

C8_Witness ==
    /\ pc = "exited"
    /\ Len(files) = 1
    /\ Len(files[1].name) < Len(boardTitle)
    /\ files[1].data # <<>>

\* the lookup that must come right before lookup k of the log
Sequential(k) ==
    LET e == lookups[k]
        p == lookups[k - 1]
    IN  CASE e.op = "header" ->
                IF e.col = 0 THEN p.op = "columns"
                ELSE /\ p.col = e.col - 1
                     /\ \/ p.op = "messages" /\ pageCols[e.col].n = 0
                        \/ /\ p.op \in { "votes", "text" }
                           /\ p.msg = pageCols[e.col].n - 1
          [] e.op = "messages" -> p.op = "header" /\ p.col = e.col
          [] e.op = "votes" ->
                /\ p.col = e.col
                /\ IF e.msg = 0 THEN p.op = "messages"
                   ELSE p.op \in { "votes", "text" } /\ p.msg = e.msg - 1
          [] e.op = "text" -> p.op = "votes" /\ p.col = e.col /\ p.msg = e.msg
          [] OTHER -> TRUE

\* C9: lookups are made one after the other in page order: a lookup of column
\* i+1 comes only after every message of column i was resolved; on success
\* eval_columns holds one column per column of the page, in page order.
C9_Sequential ==
    /\ \A k \in 2..Len(lookups) : lookups[k - 1].ok /\ Sequential(k)
    /\ pc \in { "returned", "writing", "exited", "uncaught" } =>
          /\ ExtractionDone
          /\ Len(pageCols) = columns
          /\ \A c \in 1..columns :
                /\ Len(pageCols[c].msgs) = pageCols[c].n
                /\ Cardinality({ k \in 1..Len(lookups) :
                      lookups[k].op = "header" /\ lookups[k].col = c - 1 }) = 1
                /\ eval_columns[c].messages = ExpectedMessages(pageCols[c].msgs)

C9_Witness ==
    /\ pc = "exited"
    /\ columns = 2
    /\ pageCols[1].n = 2
    /\ pageCols[2].n = 2
    /\ Len(eval_columns[1].messages) = 1

====
